---- MODULE Spec2Model ----
(***************************************************************************)
(* Model of the streaming consumer runtime of nakadion:                    *)
(*   src/src/nakadi/committer.rs  the commit coordinator (Committer)       *)
(*   src/src/nakadi/consumer.rs   the consumer supervisor (Consumer)       *)
(* The dispatcher, the lifecycle token, the batch type and the streaming   *)
(* client are used by these files but defined elsewhere; they are modelled *)
(* from their contracts in spec.md.                                        *)
(*                                                                         *)
(* Time is an integer clock `now` (seconds, rounded down).  Each thread of *)
(* the program is a process with a position (s_pc, c_pc) that moves from   *)
(* one blocking or shared-memory operation to the next.                    *)
(***************************************************************************)
EXTENDS Integers, Sequences, FiniteSets, TLC

\* ---------------------------------------------------------------- bounds
MaxOffset == 2
MaxTime == 2
MaxN == 1
MaxBatchAge == 2
MaxChan == 1
MaxStreams == 2
MaxAttempts == 2

\* the (event type, partition) keys: two partitions of one event type
Keys == {1, 2}
\* the keys that carry events on a stream of the consumer
StreamKeys == {1}
Offsets == 1..MaxOffset
Times == 0..MaxTime

\* ------------------------------------------------------------ data model
None == [none |-> TRUE]

\* nakadi::CommitStrategy; EveryNBatches with a window of one batch per key
Strategies ==
    {[kind |-> "AllBatches", n |-> 0], [kind |-> "MaxAge", n |-> 0]}
    \cup {[kind |-> "EveryNBatches", n |-> Cardinality(Keys)]}
    \cup {[kind |-> "EveryNSeconds", n |-> n] : n \in 1..MaxN}

\* Batch: a batch line (cursor = key and offset) with its reception time.
Batch(k, o, t) == [key |-> k, offset |-> o, received_at |-> t]

\* batch.commit_deadline = reception timestamp + maximum batch age
commit_deadline(batch) == batch.received_at + MaxBatchAge

\* batch.batch_line.cursor()
cursor(batch) == [key |-> batch.key, offset |-> batch.offset]

Min(a, b) == IF a <= b THEN a ELSE b
Max(a, b) == IF a >= b THEN a ELSE b

\* ----------------------------------------------------------------- state
VARIABLES
    now,          \* the clock, Instant::now()
    strategy,     \* the CommitStrategy the consumer was started with
    \* --- the transport (streaming client) and the server behind it
    committed,    \* [Keys -> 0..MaxOffset]: the cursor committed per key
    calls,        \* history: the commit calls of the current committer
    \* --- commit coordinator (committer.rs)
    c_pc,         \* position of run_commit_loop
    c_lifecycle,  \* the committer's Lifecycle
    cursors,      \* the commit registry (HashMap) of run_commit_loop
    chan,         \* the mpsc channel of CommitterMessage::Commit
    senders,      \* TRUE while some Sender clone (Committer handle) is alive
    acked,        \* history: last offset per key that commit() accepted
    last_recv,    \* history: last batch per key received since its removal
    atShutdown,   \* history: <<the registry when the shutdown flush began>>
    \* --- consumer supervisor (consumer.rs)
    s_pc,         \* position of consumer_loop / connect / consume
    s_lifecycle,  \* the consumer's Lifecycle
    stream_id,    \* the number of streams connected so far (the StreamId)
    deadline,     \* connect: Instant::now() + max_dur
    attempt,      \* connect: the attempt counter
    wake_at,      \* connect: the end of the current back-off sleep
    last_connect, \* history: the result of the latest client.connect call
    first_off,    \* the server's first batch per key on this stream
    next_off,     \* the server's next batch per key on this stream
    keep_alive,   \* history: Len(forwarded) at the last keep-alive, or -1
    forwarded,    \* history: cursors of the batches passed to dispatcher.process
    \* --- partition dispatcher
    d_state,      \* "none", "running" or "stopping" (stop() was called)
    worker,       \* [Keys -> "absent", "running", "exited"]
    inbox,        \* [Keys -> Seq(Batch)]: the workers' FIFO inboxes
    handled,      \* history: offsets ever handed to the key's handler
    seen          \* history: offsets the handler saw on this stream, in order

c_vars == <<c_pc, c_lifecycle, cursors, chan, senders, acked, last_recv,
            atShutdown>>
t_vars == <<committed, calls>>
s_vars == <<s_pc, s_lifecycle, stream_id, deadline, attempt, wake_at,
            last_connect, first_off, next_off, keep_alive, forwarded>>
d_vars == <<d_state, worker, inbox, handled, seen>>
conn_vars == <<deadline, attempt, wake_at, last_connect>>
stream_vars == <<stream_id, first_off, next_off, keep_alive, forwarded>>
vars == <<now, strategy, committed, calls, c_pc, c_lifecycle, cursors, chan,
          senders, acked, last_recv, atShutdown, s_pc, s_lifecycle,
          stream_id, deadline, attempt, wake_at, last_connect, first_off,
          next_off, keep_alive, forwarded, d_state, worker, inbox, handled,
          seen>>

\* ------------------------------------------------------- lifecycle token
\* Lifecycle::default(): running, no abort requested
Lifecycle_default == [abort |-> FALSE, running |-> TRUE]
request_abort(l) == [l EXCEPT !.abort = TRUE]
abort_requested(l) == l.abort
stopped(l) == [l EXCEPT !.running = FALSE]
running(l) == l.running

\* ------------------------------------------------------------- transport
\* client.commit(stream_id, cursors, flow_id) on the server: a successful
\* call moves the committed cursor of each key forward, never backward.
ServerCommit(cs) ==
    [k \in Keys |->
        LET os == {c.offset : c \in {x \in cs : x.key = k}}
        IN  IF os = {} THEN committed[k]
            ELSE Max(committed[k], CHOOSE o \in os : \A p \in os : p <= o)]

\* One commit call: it either fails (Err) or is applied by the server.
client_commit(kind, cs, ok) ==
    /\ calls' = Append(calls, [kind |-> kind, cursors |-> cs, ok |-> ok])
    /\ committed' = IF ok THEN ServerCommit(cs) ELSE committed

\* -------------------------------------------------------- commit entries
\* CommitEntry::new, were every strategy to use the batch's commit deadline
CommitEntry_new_by_age(batch, strat) ==
    [key |-> batch.key,
     commit_deadline |-> commit_deadline(batch),
     batch |-> batch,
     ack_time |-> now,
     batch_deadline |-> commit_deadline(batch)]

\* CommitEntry::new, were EveryNSeconds to take the later of the two times
CommitEntry_new_later(batch, strat) ==
    [key |-> batch.key,
     commit_deadline |->
        CASE strat.kind = "AllBatches" -> now
          [] strat.kind = "EveryNBatches" -> now
          [] strat.kind = "MaxAge" -> commit_deadline(batch)
          [] strat.kind = "EveryNSeconds" ->
                Max(now + strat.n, commit_deadline(batch)),
     batch |-> batch,
     ack_time |-> now,
     batch_deadline |-> commit_deadline(batch)]

\* CommitEntry::new.  The entry is the key with the struct's two fields,
\* commit_deadline and batch; ack_time and batch_deadline are history: the
\* time of the insert and the commit deadline of the batch inserted.
CommitEntry_new(batch, strat) ==
    [key |-> batch.key,
     commit_deadline |->
        CASE strat.kind = "AllBatches" -> now
          [] strat.kind = "EveryNBatches" -> now
          [] strat.kind = "MaxAge" -> commit_deadline(batch)
          [] strat.kind = "EveryNSeconds" ->
                Min(now + strat.n, commit_deadline(batch)),
     batch |-> batch,
     ack_time |-> now,
     batch_deadline |-> commit_deadline(batch)]

\* CommitEntry::update, were it to leave the batch as it is
CommitEntry_update_keeps_batch(entry, next_batch) == entry

\* CommitEntry::update, were it to compute the deadline anew
CommitEntry_update_resets(entry, next_batch) ==
    CommitEntry_new(next_batch, strategy)

\* CommitEntry::update
CommitEntry_update(entry, next_batch) == [entry EXCEPT !.batch = next_batch]

\* CommitEntry::is_due, were every entry due at once
is_due_at_once(entry) == TRUE

\* CommitEntry::is_due, were an entry due only after its fire-at
is_due_after(entry) == entry.commit_deadline < now

\* CommitEntry::is_due
is_due(entry) == entry.commit_deadline <= now

\* match cursors.entry(key) { Vacant => insert(new), Occupied => update }
cursors_entry(map, next_batch) ==
    IF \E e \in map : e.key = next_batch.key
    THEN {IF e.key = next_batch.key
          THEN CommitEntry_update(e, next_batch) ELSE e : e \in map}
    ELSE map \cup {CommitEntry_new(next_batch, strategy)}

\* ------------------------------------------------- the coordinator's loop
KeysOf(map) == {e.key : e \in map}

\* flush_all_cursors, were it to commit the due entries only
flush_all_cursors_due_only(all_cursors, ok) ==
    /\ client_commit("all",
            {cursor(e.batch) : e \in {x \in all_cursors : is_due(x)}}, ok)
    /\ cursors' = {}

\* flush_all_cursors: one commit call with the cursor of every entry; the
\* map is moved into the function and dropped with it.
flush_all_cursors(all_cursors, ok) ==
    /\ client_commit("all", {cursor(e.batch) : e \in all_cursors}, ok)
    /\ cursors' = {}

\* flush_due_cursors, were it to clear the map after a commit
flush_due_cursors_clears(all_cursors, ok) ==
    LET cursors_to_commit == {cursor(e.batch) : e \in {x \in all_cursors : is_due(x)}}
    IN  IF cursors_to_commit # {}
        THEN /\ client_commit("due", cursors_to_commit, ok)
             /\ cursors' = IF ok THEN {} ELSE all_cursors
        ELSE /\ cursors' = all_cursors
             /\ UNCHANGED <<committed, calls>>

\* flush_due_cursors, were it to remove the keys before looking at the result
flush_due_cursors_removes_on_err(all_cursors, ok) ==
    LET cursors_to_commit == {cursor(e.batch) : e \in {x \in all_cursors : is_due(x)}}
        keys_to_commit == {e.key : e \in {x \in all_cursors : is_due(x)}}
    IN  IF cursors_to_commit # {}
        THEN /\ client_commit("due", cursors_to_commit, ok)
             /\ cursors' = {e \in all_cursors : e.key \notin keys_to_commit}
        ELSE /\ cursors' = all_cursors
             /\ UNCHANGED <<committed, calls>>

\* flush_due_cursors, were the committed keys to stay in the map
flush_due_cursors_keeps(all_cursors, ok) ==
    LET cursors_to_commit == {cursor(e.batch) : e \in {x \in all_cursors : is_due(x)}}
    IN  IF cursors_to_commit # {}
        THEN /\ client_commit("due", cursors_to_commit, ok)
             /\ cursors' = all_cursors
        ELSE /\ cursors' = all_cursors
             /\ UNCHANGED <<committed, calls>>

\* flush_due_cursors: one commit call with the cursors of the due entries,
\* if there are any; Ok removes their keys, Err leaves the map as it is.
flush_due_cursors(all_cursors, ok) ==
    LET cursors_to_commit == {cursor(e.batch) : e \in {x \in all_cursors : is_due(x)}}
        keys_to_commit == {e.key : e \in {x \in all_cursors : is_due(x)}}
    IN  IF cursors_to_commit # {}
        THEN /\ client_commit("due", cursors_to_commit, ok)
             /\ cursors' = IF ok
                           THEN {e \in all_cursors : e.key \notin keys_to_commit}
                           ELSE all_cursors
        ELSE /\ cursors' = all_cursors
             /\ UNCHANGED <<committed, calls>>

\* Result<CommitStatus, CommitError> of flush_due_cursors
flush_due_result(all_cursors, ok) ==
    IF (\E e \in all_cursors : is_due(e)) /\ ~ok THEN "Err" ELSE "Ok"

\* history: the last batch received per key (lr), forgotten for the keys
\* that were in the map (before) and are no longer in the registry
Track(lr, before) ==
    last_recv' = [k \in Keys |->
                    IF k \in KeysOf(before) /\ k \notin KeysOf(cursors')
                    THEN None ELSE lr[k]]

\* run_commit_loop, one turn of the loop.  A shutdown (abort requested, or
\* the channel disconnected) flushes everything, leaves the loop and calls
\* lifecycle.stopped().  Otherwise receiver.recv_timeout(100 ms) gives a
\* batch, which goes into the registry, or times out; then the due cursors
\* are flushed, and an Err leaves the loop and calls lifecycle.stopped().
run_commit_loop ==
    /\ c_pc = "loop"
    /\ IF abort_requested(c_lifecycle) \/ (chan = <<>> /\ ~senders)
       THEN /\ \E ok \in BOOLEAN : flush_all_cursors(cursors, ok)
            /\ atShutdown' = <<cursors>>
            /\ c_lifecycle' = stopped(c_lifecycle)
            /\ c_pc' = "done"
            /\ UNCHANGED <<chan, last_recv>>
       ELSE LET all_cursors == IF chan # <<>>
                               THEN cursors_entry(cursors, Head(chan))
                               ELSE cursors
                lr == IF chan # <<>>
                      THEN [last_recv EXCEPT ![Head(chan).key] = Head(chan)]
                      ELSE last_recv
            IN  /\ chan' = IF chan # <<>> THEN Tail(chan) ELSE chan
                /\ \E ok \in BOOLEAN :
                     /\ flush_due_cursors(all_cursors, ok)
                     /\ IF flush_due_result(all_cursors, ok) = "Ok"
                        THEN /\ c_pc' = "loop"
                             /\ UNCHANGED c_lifecycle
                        ELSE /\ c_pc' = "done"
                             /\ c_lifecycle' = stopped(c_lifecycle)
                /\ Track(lr, all_cursors)
                /\ UNCHANGED atShutdown
    /\ UNCHANGED <<s_vars, d_vars, now, strategy, senders, acked>>

\* --------------------------------------------------- the Committer handle
\* Committer::commit: Ok when the message was sent, Err once the receiver
\* is gone (run_commit_loop has returned)
Committer_commit(batch) ==
    IF c_pc = "done"
    THEN UNCHANGED <<chan, acked>>
    ELSE /\ chan' = Append(chan, batch)
         /\ acked' = [acked EXCEPT ![batch.key] = batch.offset]

\* Committer::stop, were it to leave the lifecycle alone
Committer_stop_without_request == UNCHANGED c_lifecycle

\* Committer::stop
Committer_stop == c_lifecycle' = request_abort(c_lifecycle)

\* ------------------------------------------------------------------ time
Tick ==
    /\ now < MaxTime
    /\ now' = now + 1
    /\ UNCHANGED <<strategy, t_vars, c_vars, s_vars, d_vars>>

\* ------------------------------------- the coordinator with any client
\* A user of the Committer handle: commit(batch) with batches of increasing
\* offset per key, stop(), and dropping the last handle.
UserCommit ==
    /\ senders
    /\ Len(chan) < MaxChan
    /\ \E k \in Keys, t \in Times :
        /\ t <= now
        /\ acked[k] < MaxOffset
        /\ Committer_commit(Batch(k, acked[k] + 1, t))
    /\ UNCHANGED <<s_vars, d_vars, now, strategy, committed, calls, c_pc,
                   c_lifecycle, cursors, senders, last_recv, atShutdown>>

UserStop ==
    /\ senders
    /\ Committer_stop
    /\ UNCHANGED <<s_vars, d_vars, now, strategy, committed, calls, c_pc,
                   cursors, chan, senders, acked, last_recv, atShutdown>>

UserDrop ==
    /\ senders
    /\ senders' = FALSE
    /\ UNCHANGED <<s_vars, d_vars, now, strategy, committed, calls, c_pc,
                   c_lifecycle, cursors, chan, acked, last_recv, atShutdown>>

\* Committer::start: the state of a freshly started coordinator
CommitterInit ==
    /\ now = 0
    /\ strategy \in Strategies
    /\ committed = [k \in Keys |-> 0]
    /\ calls = <<>>
    /\ c_pc = "loop"
    /\ c_lifecycle = Lifecycle_default
    /\ cursors = {}
    /\ chan = <<>>
    /\ senders = TRUE
    /\ acked = [k \in Keys |-> 0]
    /\ last_recv = [k \in Keys |-> None]
    /\ atShutdown = <<>>
    /\ s_pc = "none"
    /\ s_lifecycle = Lifecycle_default
    /\ stream_id = 1
    /\ deadline = 0
    /\ attempt = 0
    /\ wake_at = 0
    /\ last_connect = "none"
    /\ first_off = [k \in Keys |-> 1]
    /\ next_off = [k \in Keys |-> 1]
    /\ keep_alive = -1
    /\ forwarded = <<>>
    /\ d_state = "none"
    /\ worker = [k \in Keys |-> "absent"]
    /\ inbox = [k \in Keys |-> <<>>]
    /\ handled = [k \in Keys |-> {}]
    /\ seen = [k \in Keys |-> <<>>]

CommitterNext ==
    \/ run_commit_loop
    \/ UserCommit
    \/ UserStop
    \/ UserDrop
    \/ Tick

CommitterSpec == CommitterInit /\ [][CommitterNext]_vars

\* ------------------------------------------------------------ dispatcher
\* Dispatcher::start: no worker yet, workers are created on the first batch
Dispatcher_start ==
    /\ d_state' = "running"
    /\ worker' = [k \in Keys |-> "absent"]
    /\ inbox' = [k \in Keys |-> <<>>]
    /\ seen' = [k \in Keys |-> <<>>]

\* Dispatcher::process: route the batch to the worker of its key
Dispatcher_process(batch) ==
    /\ worker' = [worker EXCEPT ![batch.key] = "running"]
    /\ inbox' = [inbox EXCEPT ![batch.key] = Append(@, batch)]

\* Dispatcher::stop: close the inboxes
Dispatcher_stop == d_state' = "stopping"

\* Dispatcher::is_running: true until every worker has exited
is_running == \E k \in Keys : worker[k] = "running"

\* A partition worker takes the next batch of its inbox, calls the handler
\* and, when the handler says continue, forwards the batch to the committer.
WorkerHandle(k) ==
    /\ worker[k] = "running"
    /\ inbox[k] # <<>>
    /\ inbox' = [inbox EXCEPT ![k] = Tail(@)]
    /\ handled' = [handled EXCEPT ![k] = @ \cup {Head(inbox[k]).offset}]
    /\ seen' = [seen EXCEPT ![k] = Append(@, Head(inbox[k]).offset)]
    /\ \E result \in {"continue", "skip"} :
         IF result = "continue"
         THEN Committer_commit(Head(inbox[k]))
         ELSE UNCHANGED <<chan, acked>>
    /\ UNCHANGED <<now, strategy, t_vars, s_vars, d_state, worker, c_pc,
                   c_lifecycle, cursors, senders, last_recv, atShutdown>>

\* A worker whose inbox is closed and drained exits.
WorkerExit(k) ==
    /\ d_state = "stopping"
    /\ worker[k] = "running"
    /\ inbox[k] = <<>>
    /\ worker' = [worker EXCEPT ![k] = "exited"]
    /\ UNCHANGED <<now, strategy, t_vars, c_vars, s_vars, d_state, inbox,
                   handled, seen>>

\* ------------------------------------------------------------- supervisor
ConnectMaxDur == 300

CONNECT_RETRY_BACKOFF_MS ==
    <<10, 50, 100, 500, 1000, 1000, 1000, 3000, 3000, 3000, 5000, 5000, 5000,
      10000, 10000, 10000, 15000, 15000, 15000>>

\* *CONNECT_RETRY_BACKOFF_MS.get(attempt).unwrap_or(&30_000), 0-based index
sleep_dur_ms(n) ==
    IF n + 1 <= Len(CONNECT_RETRY_BACKOFF_MS)
    THEN CONNECT_RETRY_BACKOFF_MS[n + 1] ELSE 30000

\* ConnectError::is_permanent: the error connect() gives up with
\* (ConnectError::Other) is a permanent one
is_permanent(err) == err = "Other"

\* The Committer handle is dropped: no sender is left.  The commit loop is
\* a detached thread; what it owned is gone once it has returned.
DropCommitter ==
    /\ senders' = FALSE
    /\ UNCHANGED <<c_pc, c_lifecycle>>
    /\ IF c_pc = "done"
       THEN /\ cursors' = {}
            /\ chan' = <<>>
            /\ acked' = [k \in Keys |-> 0]
            /\ last_recv' = [k \in Keys |-> None]
            /\ atShutdown' = <<>>
            /\ calls' = <<>>
       ELSE UNCHANGED <<cursors, chan, acked, last_recv, atShutdown, calls>>

\* The Dispatcher is dropped; its workers are threads of their own.
DropDispatcher ==
    /\ UNCHANGED <<d_state, worker>>
    /\ IF \A k \in Keys : worker[k] # "running"
       THEN /\ inbox' = [k \in Keys |-> <<>>]
            /\ seen' = [k \in Keys |-> <<>>]
       ELSE UNCHANGED <<inbox, seen>>

\* The line iterator is dropped.
NoStream ==
    /\ first_off' = [k \in Keys |-> 1]
    /\ next_off' = [k \in Keys |-> 1]
    /\ keep_alive' = -1
    /\ forwarded' = <<>>

\* Committer::start: a new channel, lifecycle and commit loop
Committer_start ==
    /\ c_pc' = "loop"
    /\ c_lifecycle' = Lifecycle_default
    /\ cursors' = {}
    /\ chan' = <<>>
    /\ senders' = TRUE
    /\ acked' = [k \in Keys |-> 0]
    /\ last_recv' = [k \in Keys |-> None]
    /\ atShutdown' = <<>>
    /\ calls' = <<>>

\* consumer_loop, top of the loop: the abort check; either the loop is left
\* and lifecycle.stopped() is called, or connect() begins
ConsumerLoopTop ==
    /\ s_pc = "top"
    /\ IF abort_requested(s_lifecycle)
       THEN /\ s_pc' = "stopped"
            /\ s_lifecycle' = stopped(s_lifecycle)
            /\ UNCHANGED <<deadline, attempt>>
       ELSE /\ s_pc' = "connect"
            /\ deadline' = now + ConnectMaxDur
            /\ attempt' = 0
            /\ UNCHANGED s_lifecycle
    /\ UNCHANGED <<now, strategy, t_vars, c_vars, d_vars, stream_vars,
                   wake_at, last_connect>>

\* consumer_loop, when connect() returned Err(err)
connect_failed(err) ==
    IF is_permanent(err)
    THEN /\ s_pc' = "stopped"
         /\ s_lifecycle' = stopped(s_lifecycle)
    ELSE /\ s_pc' = "top"
         /\ UNCHANGED s_lifecycle

\* connect, what follows an Err of client.connect, were the deadline not
\* looked at
connect_retry_without_deadline ==
    IF abort_requested(s_lifecycle)
    THEN /\ connect_failed("Other")
         /\ attempt' = 0
         /\ deadline' = 0
         /\ UNCHANGED wake_at
    ELSE /\ s_pc' = "sleep"
         /\ attempt' = attempt + 1
         /\ wake_at' = now + (sleep_dur_ms(attempt + 1) \div 1000)
         /\ UNCHANGED <<s_lifecycle, deadline>>

\* connect, what follows an Err of client.connect: give up with
\* ConnectError::Other, or sleep and try again.  The attempt counter and
\* the deadline are locals of connect; they are cleared when it returns.
connect_retry ==
    IF now >= deadline \/ abort_requested(s_lifecycle)
    THEN /\ connect_failed("Other")
         /\ attempt' = 0
         /\ deadline' = 0
         /\ UNCHANGED wake_at
    ELSE /\ s_pc' = "sleep"
         /\ attempt' = attempt + 1
         /\ wake_at' = now + (sleep_dur_ms(attempt + 1) \div 1000)
         /\ UNCHANGED <<s_lifecycle, deadline>>

\* connect, one turn of its loop: client.connect and what follows.  On
\* success consumer_loop starts the committer and the dispatcher of the new
\* stream, which delivers each key from its committed cursor on.
connect ==
    /\ s_pc = "connect"
    /\ \E result \in {"ok", "temporary", "permanent"} :
        /\ last_connect' = result
        /\ IF result = "ok"
           THEN /\ stream_id < MaxStreams
                /\ stream_id' = stream_id + 1
                /\ Committer_start
                /\ Dispatcher_start
                /\ first_off' = [k \in Keys |-> committed[k] + 1]
                /\ next_off' = [k \in Keys |-> committed[k] + 1]
                /\ keep_alive' = -1
                /\ forwarded' = <<>>
                /\ s_pc' = "read"
                /\ attempt' = 0
                /\ deadline' = 0
                /\ UNCHANGED <<wake_at, s_lifecycle, committed>>
           ELSE /\ \/ attempt < MaxAttempts
                   \/ now >= deadline
                   \/ abort_requested(s_lifecycle)
                /\ connect_retry
                /\ UNCHANGED <<c_vars, t_vars, d_state, worker, inbox, seen,
                               stream_vars>>
    /\ UNCHANGED <<now, strategy, handled>>

\* connect: thread::sleep(sleep_dur_ms) is over
connect_wake ==
    /\ s_pc = "sleep"
    /\ now >= wake_at
    /\ s_pc' = "connect"
    /\ wake_at' = 0
    /\ UNCHANGED <<now, strategy, t_vars, c_vars, d_vars, stream_vars,
                   s_lifecycle, deadline, attempt, last_connect>>

\* -------------------------------------------------------------- the stream
Line(type, k, o) == [type |-> type, key |-> k, offset |-> o]

\* What the line iterator can yield next: the next batch of a key, intact
\* or as a frame that does not parse; a keep-alive line (no events; its
\* cursor is modelled as offset 0, which is no batch's cursor); a read
\* error; or the end of the stream.
NextLines ==
    {Line(type, k, next_off[k]) :
        type \in {"batch", "malformed"},
        k \in {j \in StreamKeys : next_off[j] <= MaxOffset}}
    \cup {Line("keepalive", k, 0) : k \in StreamKeys}
    \cup {Line("error", 0, 0), Line("end", 0, 0)}

\* BatchLine::is_keep_alive_line
is_keep_alive_line(line) == line.type = "keepalive"

\* send_line, were BatchLine::new to accept every line
send_line_result_always_ok(line) == "Ok"

\* send_line: Err when the line does not parse, else Ok
send_line_result(line) == IF line.type = "malformed" THEN "Err" ELSE "Ok"

\* send_line, were it to pass keep-alive lines on as well
send_line_forwards_keep_alive(line) ==
    IF line.type = "malformed"
    THEN UNCHANGED <<worker, inbox, forwarded>>
    ELSE LET batch == Batch(line.key, line.offset, now)
         IN  /\ Dispatcher_process(batch)
             /\ forwarded' = Append(forwarded, cursor(batch))

\* send_line: a line that parses and is no keep-alive goes to the dispatcher
send_line(line) ==
    IF line.type = "malformed" \/ is_keep_alive_line(line)
    THEN UNCHANGED <<worker, inbox, forwarded>>
    ELSE LET batch == Batch(line.key, line.offset, now)
         IN  /\ Dispatcher_process(batch)
             /\ forwarded' = Append(forwarded, cursor(batch))

\* consume, were it to go on after send_line returned Err
consume_continues_after_send_error(line) ==
    /\ ~abort_requested(s_lifecycle)
    /\ line.type # "error"

\* consume, were only the abort to end the loop
consume_continues_unless_abort(line) == ~abort_requested(s_lifecycle)

\* consume, body of the for loop: does the loop go on after this line?
consume_continues(line) ==
    /\ ~abort_requested(s_lifecycle)
    /\ line.type # "error"
    /\ send_line_result(line) = "Ok"

\* consume, one turn of the for loop; when the loop is over (the iterator
\* ended, or a break) dispatcher.stop() is called
consume ==
    /\ s_pc = "read"
    /\ \E line \in NextLines :
        /\ next_off' = IF line.type \in {"batch", "malformed"}
                       THEN [next_off EXCEPT ![line.key] = @ + 1]
                       ELSE next_off
        /\ keep_alive' = IF line.type = "keepalive"
                         THEN Len(forwarded) ELSE keep_alive
        /\ IF line.type = "end"
           THEN /\ UNCHANGED <<worker, inbox, forwarded>>
                /\ Dispatcher_stop
                /\ s_pc' = "wait_dispatcher"
           ELSE /\ IF abort_requested(s_lifecycle) \/ line.type = "error"
                   THEN UNCHANGED <<worker, inbox, forwarded>>
                   ELSE send_line(line)
                /\ IF consume_continues(line)
                   THEN /\ s_pc' = "read"
                        /\ UNCHANGED d_state
                   ELSE /\ s_pc' = "wait_dispatcher"
                        /\ Dispatcher_stop
    /\ UNCHANGED <<now, strategy, t_vars, c_vars, handled, seen, s_lifecycle,
                   stream_id, first_off, conn_vars>>

\* consume, were committer.stop() called without waiting for the dispatcher
consume_stop_committer_at_once ==
    /\ s_pc = "wait_dispatcher"
    /\ Committer_stop
    /\ s_pc' = "wait_committer"
    /\ UNCHANGED <<now, strategy, t_vars, d_vars, c_pc, cursors, chan,
                   senders, acked, last_recv, atShutdown, s_lifecycle,
                   stream_vars, conn_vars>>

\* consume: while dispatcher.is_running() { sleep }, then committer.stop()
consume_stop_committer ==
    /\ s_pc = "wait_dispatcher"
    /\ ~is_running
    /\ Committer_stop
    /\ s_pc' = "wait_committer"
    /\ UNCHANGED <<now, strategy, t_vars, d_vars, c_pc, cursors, chan,
                   senders, acked, last_recv, atShutdown, s_lifecycle,
                   stream_vars, conn_vars>>

\* consume, were it to return without waiting for the committer
consume_return_no_wait ==
    /\ s_pc = "wait_committer"
    /\ s_pc' = "top"
    /\ DropCommitter
    /\ DropDispatcher
    /\ NoStream
    /\ UNCHANGED <<now, strategy, committed, handled, s_lifecycle, stream_id,
                   conn_vars>>

\* consume: while committer.running() { sleep }; then consume returns and
\* the line iterator, the dispatcher and the committer are dropped
consume_return ==
    /\ s_pc = "wait_committer"
    /\ ~running(c_lifecycle)
    /\ s_pc' = "top"
    /\ DropCommitter
    /\ DropDispatcher
    /\ NoStream
    /\ UNCHANGED <<now, strategy, committed, handled, s_lifecycle, stream_id,
                   conn_vars>>

consumer_loop ==
    \/ ConsumerLoopTop
    \/ connect
    \/ connect_wake
    \/ consume
    \/ consume_stop_committer
    \/ consume_return

\* Consumer::stop, were it to flip the abort flag
Consumer_stop_toggles ==
    /\ s_lifecycle' = [s_lifecycle EXCEPT !.abort = ~s_lifecycle.abort]
    /\ UNCHANGED <<now, strategy, t_vars, c_vars, d_vars, s_pc, stream_vars,
                   conn_vars>>

\* Consumer::stop, called by the application, any number of times
Consumer_stop ==
    /\ s_lifecycle' = request_abort(s_lifecycle)
    /\ UNCHANGED <<now, strategy, t_vars, c_vars, d_vars, s_pc, stream_vars,
                   conn_vars>>

\* A long time passes while the supervisor is connecting or backing off.
TickLong ==
    /\ s_pc \in {"connect", "sleep"}
    /\ now < ConnectMaxDur
    /\ now' = now + ConnectMaxDur
    /\ UNCHANGED <<strategy, t_vars, c_vars, s_vars, d_vars>>

\* Consumer::start: the state of a freshly started consumer
Init ==
    /\ now = 0
    /\ strategy \in Strategies
    /\ committed = [k \in Keys |-> 0]
    /\ calls = <<>>
    /\ c_pc = "none"
    /\ c_lifecycle = Lifecycle_default
    /\ cursors = {}
    /\ chan = <<>>
    /\ senders = FALSE
    /\ acked = [k \in Keys |-> 0]
    /\ last_recv = [k \in Keys |-> None]
    /\ atShutdown = <<>>
    /\ s_pc = "top"
    /\ s_lifecycle = Lifecycle_default
    /\ stream_id = 0
    /\ deadline = 0
    /\ attempt = 0
    /\ wake_at = 0
    /\ last_connect = "none"
    /\ first_off = [k \in Keys |-> 1]
    /\ next_off = [k \in Keys |-> 1]
    /\ keep_alive = -1
    /\ forwarded = <<>>
    /\ d_state = "none"
    /\ worker = [k \in Keys |-> "absent"]
    /\ inbox = [k \in Keys |-> <<>>]
    /\ handled = [k \in Keys |-> {}]
    /\ seen = [k \in Keys |-> <<>>]

Next ==
    \/ consumer_loop
    \/ run_commit_loop
    \/ \E k \in Keys : WorkerHandle(k)
    \/ \E k \in Keys : WorkerExit(k)
    \/ Consumer_stop
    \/ Tick
    \/ TickLong

Spec == Init /\ [][Next]_vars

\* Scheduling: every thread that can take a step eventually takes one.  The
\* supervisor thread (a transport call returns, the line iterator yields a
\* line or ends, a sleep ends), the commit loop (recv_timeout and the commit
\* call return) and each worker (the handler call returns).
Fairness ==
    /\ WF_vars(consumer_loop)
    /\ WF_vars(run_commit_loop)
    /\ \A k \in Keys : WF_vars(WorkerHandle(k))
    /\ \A k \in Keys : WF_vars(WorkerExit(k))

FairSpec == Spec /\ Fairness

\* Scheduling with a line iterator that is not bound to end: the supervisor
\* thread takes its steps, but of the read loop only the turns that read a
\* valid line (the loop goes on) or that see the abort are sure to happen;
\* the stream need never end or break.
FairnessValidLines ==
    /\ WF_vars(ConsumerLoopTop)
    /\ WF_vars(connect)
    /\ WF_vars(connect_wake)
    /\ WF_vars(consume /\ (s_pc' = "read" \/ abort_requested(s_lifecycle)))
    /\ WF_vars(consume_stop_committer)
    /\ WF_vars(consume_return)
    /\ WF_vars(run_commit_loop)
    /\ \A k \in Keys : WF_vars(WorkerHandle(k))
    /\ \A k \in Keys : WF_vars(WorkerExit(k))

ValidLinesSpec == Spec /\ FairnessValidLines

\* ================================================================ claims
EntryOf(map, k) == CHOOSE e \in map : e.key = k
LastCall == calls[Len(calls)]

\* C1: the registry holds at most one entry per key, and the batch of the
\* entry of a key is the most recent batch received for that key since the
\* key's entry was last removed; while the loop runs, every key with such a
\* batch has an entry.
C1_RegistryHoldsLatest ==
    /\ \A e1, e2 \in cursors : e1.key = e2.key => e1 = e2
    /\ \A e \in cursors : last_recv[e.key] = e.batch
    /\ c_pc = "loop" =>
         \A k \in Keys : last_recv[k] # None => k \in KeysOf(cursors)

\* an entry that was updated: it holds the second batch of its key and no
\* commit call was made yet, so the first batch was in the entry before
C1_Witness ==
    /\ calls = <<>>
    /\ \E e \in cursors : e.batch.offset = 2

\* the fire-at the commit strategy gives a batch inserted at time t
FireAt(strat, t, batch) ==
    CASE strat.kind \in {"AllBatches", "EveryNBatches"} -> t
      [] strat.kind = "MaxAge" -> batch.received_at + MaxBatchAge
      [] strat.kind = "EveryNSeconds" ->
            IF t + strat.n <= batch.received_at + MaxBatchAge
            THEN t + strat.n ELSE batch.received_at + MaxBatchAge

\* C2: in every step, a key that gets an entry gets it with the fire-at of
\* the commit strategy, computed from the batch and the time of the insert;
\* a key that keeps its entry keeps the entry's fire-at.
C2_Step ==
    \A k \in Keys :
        /\ (k \notin KeysOf(cursors) /\ k \in KeysOf(cursors')) =>
              EntryOf(cursors', k).commit_deadline =
                  FireAt(strategy, now, EntryOf(cursors', k).batch)
        /\ (k \in KeysOf(cursors) /\ k \in KeysOf(cursors')) =>
              EntryOf(cursors', k).commit_deadline =
                  EntryOf(cursors, k).commit_deadline

C2_InsertRule == [][C2_Step]_vars

\* an updated entry that still has the fire-at of its insert: a new entry
\* for its batch would fire later
C2_Witness ==
    \E e \in cursors :
        /\ e.batch.offset = 2
        /\ e.commit_deadline < FireAt(strategy, now, e.batch)

\* the cursor of a registry entry when a loop turn flushes: that of the
\* batch the turn has just received for the key, else that of its batch
CurrentCursor(e) ==
    IF chan # <<>> /\ ~abort_requested(c_lifecycle) /\ Head(chan).key = e.key
    THEN cursor(Head(chan)) ELSE cursor(e.batch)

\* C3: in every step of the running coordinator, an entry whose key leaves
\* the registry had its current cursor submitted in a commit call made in
\* that step.
C3_Step ==
    c_pc = "loop" =>
        \A e \in cursors :
            e.key \notin KeysOf(cursors') =>
                /\ Len(calls') = Len(calls) + 1
                /\ CurrentCursor(e) \in calls'[Len(calls')].cursors

CommitFailed == calls # <<>> /\ LastCall.kind = "due" /\ ~LastCall.ok

\* C4: there is at most one flush-all call, made only by the coordinator
\* that stops; a coordinator that has stopped other than by a failed commit
\* has made, as its last call, the flush-all with the cursor of every entry
\* the registry held when the shutdown began.
C4_ShutdownFlushesAll ==
    /\ Cardinality({i \in 1..Len(calls) : calls[i].kind = "all"}) <= 1
    /\ (\E i \in 1..Len(calls) : calls[i].kind = "all") => c_pc = "done"
    /\ (c_pc = "done" /\ ~CommitFailed) =>
          /\ ~running(c_lifecycle)
          /\ atShutdown # <<>>
          /\ calls # <<>>
          /\ LastCall.kind = "all"
          /\ LastCall.cursors = {cursor(e.batch) : e \in atShutdown[1]}

\* a shutdown flush whose registry held an entry that is not due even now
C4_Witness ==
    /\ c_pc = "done"
    /\ atShutdown # <<>>
    /\ \E e \in atShutdown[1] : e.commit_deadline > now
    /\ \E e \in atShutdown[1] : e.commit_deadline <= now

\* the offsets of the cursors submitted in some commit call, per key
Submitted(k) ==
    {c.offset : c \in {x \in UNION {calls[i].cursors : i \in 1..Len(calls)} :
                          x.key = k}}

\* C5: once the supervisor has stopped the coordinator after the dispatcher's
\* gate and the coordinator has stopped with no commit call failed, no ack is
\* left in the channel and, for every key, the cursor of the last batch that
\* commit(batch) accepted, or a later one, was submitted to the transport.
C5_TeardownSeesAllAcks ==
    (/\ s_pc = "wait_committer"
     /\ c_pc = "done"
     /\ \A i \in 1..Len(calls) : calls[i].ok) =>
        /\ chan = <<>>
        /\ \A k \in Keys :
              acked[k] > 0 => \E o \in Submitted(k) : o >= acked[k]

\* C6: the coordinator's stop is requested only when no worker of the
\* dispatcher is running, and the supervisor is at its loop top, connecting,
\* backing off or stopped only when no worker is running and the coordinator
\* of the last stream, if there was one, has stopped.
C6_TeardownOrder ==
    /\ abort_requested(c_lifecycle) => ~is_running
    /\ s_pc \in {"top", "connect", "sleep", "stopped"} =>
          /\ ~is_running
          /\ c_pc \in {"none", "done"}
          /\ c_pc = "done" => ~running(c_lifecycle)

\* the second stream's coordinator and worker run after the first stream's
\* were torn down
C6_Witness ==
    /\ stream_id = 2
    /\ c_pc = "loop"
    /\ is_running

\* C7: the cursor committed to the transport for a key never passes a batch
\* of the key that was not handed to the key's handler.
C7_AtLeastOnce ==
    \A k \in Keys : \A o \in 1..committed[k] : o \in handled[k]

\* a second stream that redelivers the first batch, handled on the first
\* stream and not committed there, and on which it was then committed
C7_Witness ==
    /\ stream_id = 2
    /\ s_pc = "read"
    /\ first_off[1] = 1
    /\ handled[1] = {1}
    /\ committed[1] = 1

\* the offsets of the batches of a sequence, in order
OffsetsOf(seq) == [i \in 1..Len(seq) |-> seq[i].offset]

\* the offsets of the batches forwarded to the dispatcher for a key, in order
ForwardedOf(k) == OffsetsOf(SelectSeq(forwarded, LAMBDA b : b.key = k))

\* C8: per key, the batches forwarded to the dispatcher on a stream are the
\* first batches the server delivered on it, in the server's order; what the
\* key's handler has seen, followed by the key's inbox, is that sequence; and
\* while the read loop runs every batch delivered so far was forwarded.
C8_ForwardedIsPrefix ==
    \A k \in Keys :
        /\ \A i \in 1..Len(ForwardedOf(k)) :
              ForwardedOf(k)[i] = first_off[k] + i - 1
        /\ Len(ForwardedOf(k)) <= next_off[k] - first_off[k]
        /\ seen[k] \o OffsetsOf(inbox[k]) = ForwardedOf(k)
        /\ s_pc = "read" => Len(ForwardedOf(k)) = next_off[k] - first_off[k]

\* two batches of a key, with a keep-alive line between them, were forwarded
\* and seen by the handler in the server's order
C8_Witness ==
    /\ keep_alive = 1
    /\ seen[1] = <<1, 2>>

\* no batch with a keep-alive's cursor is anywhere past the read loop
NoKeepAliveCursor ==
    /\ \A i \in 1..Len(forwarded) : forwarded[i].offset # 0
    /\ \A k \in Keys : \A i \in 1..Len(inbox[k]) : inbox[k][i].offset # 0
    /\ \A k \in Keys : 0 \notin handled[k]
    /\ \A i \in 1..Len(chan) : chan[i].offset # 0
    /\ \A e \in cursors : e.batch.offset # 0
    /\ \A i \in 1..Len(calls) : \A c \in calls[i].cursors : c.offset # 0

\* a keep-alive line read while no abort is requested leaves the read loop
\* running and the dispatcher untouched
KeepAliveStep ==
    (/\ s_pc = "read"
     /\ keep_alive' # keep_alive
     /\ keep_alive' # -1
     /\ ~abort_requested(s_lifecycle)) =>
        /\ s_pc' = "read"
        /\ UNCHANGED <<forwarded, inbox, worker, d_state>>

\* C9: keep-alive lines are never forwarded to the dispatcher, never reach a
\* handler and never give a cursor to the channel, the registry or a commit
\* call; and reading one does not end the read loop.
C9_KeepAliveDiscarded == []NoKeepAliveCursor /\ [][KeepAliveStep]_vars

\* a keep-alive line came between two batches that were both forwarded, and
\* the second one's cursor was committed
C9_Witness ==
    /\ keep_alive = 1
    /\ Len(forwarded) = 2
    /\ committed[1] = 2

\* C10: when client.connect returns a permanent error the supervisor leaves
\* its loop and its lifecycle becomes stopped, without a further attempt; a
\* temporary error within the connect budget, with no abort requested, is
\* followed by a back-off and another attempt.
C10_Step ==
    (s_pc = "connect" /\ s_pc' # "connect") =>
        /\ last_connect' = "permanent" =>
              /\ s_pc' = "stopped"
              /\ ~running(s_lifecycle')
        /\ (/\ last_connect' = "temporary"
            /\ now < deadline
            /\ ~abort_requested(s_lifecycle)) => s_pc' = "sleep"

C10_PermanentErrorStops == [][C10_Step]_vars

\* C11: client.connect is not called after a back-off sleep during which
\* stop() was called: a connect call that follows a sleep (attempt > 0) is
\* made only while no abort is requested.
C11_Step ==
    (s_pc = "connect" /\ s_pc' # "connect" /\ attempt > 0) =>
        ~abort_requested(s_lifecycle)

C11_NoConnectAfterAbortedSleep == [][C11_Step]_vars

\* C12: once stop() was called on the supervisor, the supervisor's lifecycle
\* eventually becomes stopped, and a stopped lifecycle stays stopped.
C12_StopLeadsToStopped ==
    /\ abort_requested(s_lifecycle) ~> ~running(s_lifecycle)
    /\ [][~running(s_lifecycle) => ~running(s_lifecycle')]_vars

\* the supervisor has stopped on request after a stream on which a batch was
\* handled and its cursor committed
C12_Witness ==
    /\ abort_requested(s_lifecycle)
    /\ ~running(s_lifecycle)
    /\ stream_id >= 1
    /\ committed[1] >= 1

\* stop() applied to a lifecycle a second time gives what the first gave,
\* and applied to a lifecycle with abort requested it changes nothing
StopTwice(l) ==
    /\ request_abort(request_abort(l)) = request_abort(l)
    /\ abort_requested(l) => request_abort(l) = l

C14_CommitErrorTerminates ==
    \A i \in 1..Len(calls) :
        (calls[i].kind = "due" /\ ~calls[i].ok) =>
            /\ i = Len(calls)
            /\ c_pc = "done"
            /\ ~running(c_lifecycle)
            /\ \A c \in calls[i].cursors :
                  \E e \in cursors : cursor(e.batch) = c

\* a due flush failed after an earlier one had succeeded, with the entries
\* of both keys in the registry
C14_Witness ==
    /\ CommitFailed
    /\ Len(calls) >= 2
    /\ Cardinality(cursors) = 2

\* C15: when the coordinator has terminated because of a commit error while
\* the supervisor reads the stream, the supervisor eventually leaves the
\* read loop of that stream.
C15_DeadCoordinatorEndsStream ==
    (CommitFailed /\ c_pc = "done" /\ s_pc = "read") ~> (s_pc # "read")

\* the commit calls the due flush made, in order
DueCalls == SelectSeq(calls, LAMBDA c : c.kind = "due")

\* C16: under AllBatches, as long as all acks are of one key, the due flush
\* has made one commit call per ack the coordinator received (the acks
\* accepted less those still queued), and the i-th call holds exactly the
\* cursor of the i-th ack.
C16_AllBatchesOneCallPerAck ==
    (strategy.kind = "AllBatches" /\ acked[2] = 0) =>
        /\ Len(DueCalls) = acked[1] - Len(chan)
        /\ \A i \in 1..Len(DueCalls) :
              DueCalls[i].cursors = {[key |-> 1, offset |-> i]}

\* two acks of one key under AllBatches gave two successful commit calls
C16_Witness ==
    /\ strategy.kind = "AllBatches"
    /\ acked[2] = 0
    /\ Len(calls) = 2
    /\ calls[1].kind = "due" /\ calls[1].ok
    /\ calls[2].kind = "due" /\ calls[2].ok

\* C17: under EveryNBatches(n) no commit call of the due flush is made
\* before the registry holds n entries: every such call holds the cursors of
\* at least n keys.
C17_EveryNBatchesWindow ==
    strategy.kind = "EveryNBatches" =>
        \A i \in 1..Len(DueCalls) :
            Cardinality(DueCalls[i].cursors) >= strategy.n

\* C18: under EveryNSeconds(n) the fire-at of every registry entry is at
\* most the time of the entry's insert plus n and at most the commit
\* deadline of the batch that was inserted; under MaxAge it is that commit
\* deadline.
C18_FireAtBounds ==
    \A e \in cursors :
        /\ strategy.kind = "EveryNSeconds" =>
              /\ e.commit_deadline <= e.ack_time + strategy.n
              /\ e.commit_deadline <= e.batch_deadline
        /\ strategy.kind = "MaxAge" => e.commit_deadline = e.batch_deadline

\* an entry under EveryNSeconds that was updated with a later batch and whose
\* fire-at is the insert time plus n, before the first batch's commit
\* deadline and before the commit deadline of the batch it holds now
C18_Witness ==
    /\ strategy.kind = "EveryNSeconds"
    /\ \E e \in cursors :
          /\ e.batch.offset = 2
          /\ e.commit_deadline = e.ack_time + strategy.n
          /\ e.commit_deadline < e.batch_deadline
          /\ e.batch_deadline < commit_deadline(e.batch)

\* a loop turn that is no shutdown: it receives the head of the channel, if
\* there is one, and flushes the due entries
FlushTurn ==
    /\ c_pc = "loop"
    /\ ~abort_requested(c_lifecycle)
    /\ chan # <<>> \/ senders

\* the key has an entry when the turn flushes
HasEntry(k) ==
    k \in KeysOf(cursors) \/ (chan # <<>> /\ Head(chan).key = k)

\* the fire-at of the key's entry when the turn flushes
FireAtOf(k) ==
    IF k \in KeysOf(cursors) THEN EntryOf(cursors, k).commit_deadline
    ELSE FireAt(strategy, now, Head(chan))

\* the latest batch received for the key when the turn flushes
Latest(k) ==
    IF chan # <<>> /\ Head(chan).key = k THEN Head(chan) ELSE last_recv[k]

\* C19: under EveryNSeconds, a turn of the commit loop in which no key has
\* reached its fire-at makes no commit call; a turn in which some have makes
\* one call that holds, for each key that has reached its fire-at and for no
\* other, one cursor, that of the latest batch received for the key; and
\* when the call succeeds those keys are absent from the registry.
C19_Step ==
    (strategy.kind = "EveryNSeconds" /\ FlushTurn /\ run_commit_loop) =>
        IF \A k \in Keys : HasEntry(k) => FireAtOf(k) > now
        THEN calls' = calls
        ELSE /\ Len(calls') = Len(calls) + 1
             /\ LET call == calls'[Len(calls')]
                IN  /\ call.kind = "due"
                    /\ call.cursors =
                          {cursor(Latest(k)) :
                              k \in {j \in Keys : HasEntry(j)
                                                  /\ FireAtOf(j) <= now}}
                    /\ call.ok =>
                          \A c \in call.cursors : c.key \notin KeysOf(cursors')

C19_Coalescing == [][C19_Step]_vars

\* under EveryNSeconds one call has committed two keys at once, the first
\* key with the cursor of its second ack, and removed both
C19_Witness ==
    /\ strategy.kind = "EveryNSeconds"
    /\ Len(calls) = 1
    /\ calls[1].kind = "due"
    /\ calls[1].ok
    /\ calls[1].cursors = {[key |-> 1, offset |-> 2], [key |-> 2, offset |-> 1]}
    /\ cursors = {}
    /\ c_pc = "loop"

\* what C20 asks of every step
C20_Step ==
    \* a line of a batch that was read and not forwarded ends the read loop,
    \* and dispatcher.stop() is called
    /\ (s_pc = "read" /\ next_off' # next_off /\ forwarded' = forwarded) =>
          /\ s_pc' = "wait_dispatcher"
          /\ d_state' = "stopping"
    \* once the read loop is over nothing more is forwarded on the stream
    /\ s_pc \in {"wait_dispatcher", "wait_committer"} =>
          Len(forwarded') <= Len(forwarded)
    \* the teardown: dispatcher first, then the coordinator, then the loop top
    /\ (s_pc = "wait_dispatcher" /\ s_pc' # s_pc) =>
          /\ s_pc' = "wait_committer"
          /\ ~is_running
          /\ abort_requested(c_lifecycle')
    /\ (s_pc = "wait_committer" /\ s_pc' # s_pc) =>
          /\ s_pc' = "top"
          /\ c_pc = "done"
    \* at the loop top a new connect begins unless abort is requested
    /\ (s_pc = "top" /\ s_pc' # s_pc) =>
          IF abort_requested(s_lifecycle)
          THEN s_pc' = "stopped" ELSE s_pc' = "connect"
    \* the supervisor stops at the loop top or in connect, nowhere else
    /\ (s_pc' = "stopped" /\ s_pc # "stopped") => s_pc \in {"top", "connect"}

C21_Step ==
    (FlushTurn /\ run_commit_loop /\ c_pc' = "loop") =>
        /\ \A e \in cursors' : e.commit_deadline > now
        /\ \A k \in Keys :
              (HasEntry(k) /\ FireAtOf(k) > now) =>
                  /\ k \in KeysOf(cursors')
                  /\ EntryOf(cursors', k).commit_deadline = FireAtOf(k)
                  /\ EntryOf(cursors', k).batch = Latest(k)

C21_DueEntriesFlushed == [][C21_Step]_vars

\* under MaxAge one turn has committed the entry of key 1, which was due,
\* and left the entry of key 2, which is not due yet
C21_Witness ==
    /\ strategy.kind = "MaxAge"
    /\ c_pc = "loop"
    /\ Len(calls) = 1
    /\ calls[1].ok
    /\ {c.key : c \in calls[1].cursors} = {1}
    /\ \E e \in cursors : e.key = 2 /\ e.commit_deadline > now

\* C22: a failed connect attempt made before the deadline with no abort
\* requested is followed by a back-off sleep, and the sleep by another
\* attempt; a failed attempt that completes at or after the deadline is
\* followed by no attempt: the supervisor leaves its loop, its lifecycle is
\* stopped, and a stopped supervisor never connects again.
C22_Step ==
    /\ (s_pc = "connect" /\ s_pc' # "connect" /\ last_connect' # "ok") =>
          /\ (now < deadline /\ ~abort_requested(s_lifecycle)) =>
                /\ s_pc' = "sleep"
                /\ attempt' = attempt + 1
                /\ running(s_lifecycle')
          /\ now >= deadline =>
                /\ s_pc' = "stopped"
                /\ ~running(s_lifecycle')
    /\ (s_pc = "sleep" /\ s_pc' # "sleep") => s_pc' = "connect"
    /\ s_pc = "stopped" => s_pc' = "stopped"

C22_ConnectRetryBounded == [][C22_Step]_vars

\* with no stop() called, the supervisor has stopped because an attempt
\* failed with a temporary error after the connect budget had elapsed
C22_Witness ==
    /\ s_pc = "stopped"
    /\ ~running(s_lifecycle)
    /\ ~abort_requested(s_lifecycle)
    /\ last_connect = "temporary"
    /\ now >= ConnectMaxDur

\* the acks of the key that the commit loop has received: commit(batch) is
\* called with offsets 1, 2, ... per key, and the queued ones are not received
Received(k) ==
    {o \in 1..acked[k] : \A q \in 1..Len(chan) :
                            chan[q].key = k => o < chan[q].offset}

\* C23: the cursors of a key submitted by one coordinator, over the due
\* calls and the flush-all in call order, follow the order in which the
\* key's acks were received: a call holds at most one cursor per key, each
\* cursor is that of a received ack, and a later call holds, for the same
\* key, the cursor of a later ack, so none is submitted twice.
C23_SubmittedInAckOrder ==
    \A i \in 1..Len(calls) : \A c \in calls[i].cursors :
        /\ c.offset \in Received(c.key)
        /\ \A d \in calls[i].cursors : d.key = c.key => d = c
        /\ \A j \in (i + 1)..Len(calls) : \A d \in calls[j].cursors :
              d.key = c.key => c.offset < d.offset

\* a due call submitted the cursor of the first ack of key 1 and the
\* flush-all of the shutdown that of its second ack
C23_Witness ==
    /\ Len(calls) = 2
    /\ calls[1].kind = "due"
    /\ calls[2].kind = "all"
    /\ [key |-> 1, offset |-> 1] \in calls[1].cursors
    /\ [key |-> 1, offset |-> 2] \in calls[2].cursors

\* no worker of the dispatcher and no commit loop is running
AllTornDown ==
    /\ ~is_running
    /\ \A k \in Keys : worker[k] # "running"
    /\ c_pc \in {"none", "done"}
    /\ c_pc = "done" => ~running(c_lifecycle)

\* C24: while the supervisor's lifecycle is stopped no partition worker and
\* no commit loop is running, whether the loop was left on abort or on a
\* permanent connect error; and the supervisor starts the dispatcher and the
\* coordinator of a stream only when those of the stream before have
\* stopped, so this holds of every one it ever started.
C24_StoppedMeansAllStopped ==
    /\ [](~running(s_lifecycle) => AllTornDown)
    /\ [][stream_id' # stream_id => AllTornDown]_vars

\* the supervisor has stopped after two streams, and the worker and the
\* commit loop of the second have run and ended
C24_Witness ==
    /\ ~running(s_lifecycle)
    /\ stream_id = 2
    /\ c_pc = "done"
    /\ \E k \in Keys : worker[k] = "exited"

====
